---- MODULE Spec2Model ----
(***************************************************************************)
(* Model of the cloudify puppet plugin: puppet_plugin/retrying_lock.py     *)
(* (RetryingLock) and puppet_plugin/manager.py (PuppetManager and its      *)
(* installer / runner classes).                                            *)
(*                                                                         *)
(* Several orchestrator processes run PuppetRunner.run() on one host.      *)
(* Every step of a process is one subprocess call, one network call or one *)
(* lock attempt of the code; such a call may fail (\E ok \in BOOLEAN).     *)
(* Writes to a process's own temporary files are taken to succeed.         *)
(*                                                                         *)
(* The specifications share the definitions:                               *)
(*   Spec       the processes running run() concurrently                   *)
(*   LockSpec   RetryingLock driven directly through __enter__ / __exit__  *)
(*   ScriptSpec the generated run script applied to an agent exit code     *)
(*   CmdSpec    PuppetStandaloneRunner.get_runner_cmd applied to arguments *)
(*   CtorSpec   PuppetManager(ctx) applied to a host and a puppet_config   *)
(* Text is a sequence of characters wherever the code looks into it.       *)
(***************************************************************************)
EXTENDS Integers, Sequences, FiniteSets, TLC

\* ------------------------------------------------------------------ bounds
\* largest `retries` a direct client of RetryingLock passes (LockSpec)
MaxRetries == 2
\* longest execute / manifest argument of run() (CmdSpec)
MaxArgLen == 2
\* longest puppet_config['environment'] tried, "Prod-1" apart (CtorSpec)
MaxEnvLen == 2

\* --------------------------------------------------------------- constants
Procs == {"p1", "p2"}
None == "none"

\* manager.py:20-21, (lock_name, retries, sleep)
PUPPET_INSTALL_LOCK == [name |-> "puppet-install.lock", retries |-> 30, sleep |-> 10]
PUPPET_CONFIG_LOCK == [name |-> "puppet-config.lock", retries |-> 30, sleep |-> 10]
LockNames == {PUPPET_INSTALL_LOCK.name, PUPPET_CONFIG_LOCK.name}

\* exit statuses of a process
ExitCodes == 0..255

Modules == {"m1", "m2"}
Urls == {"d1", "d2"}

\* puppet_config['download']: absent, one URL, or a list of URLs
NoDownload == [kind |-> "absent", urls |-> <<>>]
OneDownload(u) == [kind |-> "one", urls |-> <<u>>]
ListDownload(us) == [kind |-> "list", urls |-> us]

\* The inputs of one orchestrator: ctx.properties['puppet_config'] (server,
\* modules, download, facts: hasFacts tells whether the key 'facts' is there
\* and facts holds the keys of its mapping) and the arguments of run()
\* (execute, manifest: TRUE when the argument is a non-empty string).
Inputs ==
    { [server |-> TRUE, modules |-> <<>>, download |-> NoDownload,
       hasFacts |-> FALSE, facts |-> {}, execute |-> FALSE, manifest |-> FALSE],
      [server |-> FALSE, modules |-> <<"m1", "m2">>, download |-> OneDownload("d1"),
       hasFacts |-> TRUE, facts |-> {"role"}, execute |-> TRUE, manifest |-> FALSE],
      [server |-> FALSE, modules |-> <<"m2">>, download |-> ListDownload(<<"d1", "d2">>),
       hasFacts |-> TRUE, facts |-> {"cloudify"}, execute |-> FALSE, manifest |-> TRUE],
      [server |-> FALSE, modules |-> <<>>, download |-> NoDownload,
       hasFacts |-> TRUE, facts |-> {}, execute |-> FALSE, manifest |-> TRUE] }

VARIABLES
    \* ---- host state shared by the processes
    lockFile,          \* lock file name -> the process holding it, or None
    puppetBin,         \* `sudo which puppet` succeeds
    dirs,              \* PuppetInstaller.DIRS: "absent", "made", "mode700"
    customFacts,       \* cloudify_facts.rb is at DIRS['local_custom_facts']
    installedModules,  \* what `puppet module list` reports
    puppetConf,        \* last writer of /etc/puppet/puppet.conf, or None
    repo,              \* archives extracted into DIRS['local_repo']
    tmpFiles,          \* temporary files that exist: <<process, kind>>
    \* ---- per process
    inp,               \* the process's inputs, an element of Inputs
    pc,                \* position in run()
    hnd,               \* the RetryingLock object of the current `with`
    exc,               \* an exception is propagating out of the `with` body
    idx,               \* index of the for loop in configure()
    scriptExit,        \* {exit status of the run script}, {} before it ran
    hist,              \* history: what the process has done so far
    \* ---- ScriptSpec
    shE,               \* the agent's exit status, $e in the run script
    shExit,            \* {the exit status of the run script on shE}, or {}
    shNext,            \* where run() goes after that script
    \* ---- CmdSpec, CtorSpec
    uIn,               \* the arguments of the function applied
    uOut               \* its result, [st |-> "none"] before it is applied

hostVars == <<puppetBin, dirs, customFacts, installedModules, puppetConf, repo, tmpFiles>>
lockVars == <<lockFile, hnd>>
procVars == <<inp, pc, exc, idx, scriptExit, hist>>
shVars == <<shE, shExit, shNext, uIn, uOut>>
vars == <<hostVars, lockVars, procVars, shVars>>

\* ============================================================ RetryingLock

\* no RetryingLock object
NoHandle ==
    [name |-> None, retries |-> 0, attempts |-> 0, acquired |-> FALSE, st |-> "none",
     failed |-> FALSE]

\* RetryingLock.__init__: attempts counts the calls of file.acquire, failed
\* records that the last __enter__ raised
RetryingLock_init(name, retries) ==
    [name |-> name, retries |-> retries, attempts |-> 0, acquired |-> FALSE, st |-> "new",
     failed |-> FALSE]

\* lockfile.LockFile.acquire(timeout): succeeds iff no process holds the file
acquire_ok(lf, name) == lf[name] = None

\* a broken loop body: the except branch marks the lock acquired too
enter_iteration_always(h, ok) ==
    [h EXCEPT !.attempts = @ + 1, !.acquired = TRUE, !.st = "entered"]

\* one iteration of the for loop of __enter__: ok is the outcome of acquire
enter_iteration(h, ok) ==
    IF ok THEN [h EXCEPT !.attempts = @ + 1, !.acquired = TRUE, !.st = "entered"]
    ELSE [h EXCEPT !.attempts = @ + 1]

\* a broken loop bound: one more iteration than `retries`
enter_loop_off_by_one(h) == h.attempts < h.retries + 1

\* `for i in range(0, self.retries)` has another iteration
enter_loop(h) == h.attempts < h.retries

\* __enter__ is started on a handle
enter_begin(h) == [h EXCEPT !.attempts = 0, !.st = "entering", !.failed = FALSE]

\* __enter__, one step of process p: an iteration of the loop, or the raise
\* after the loop
RetryingLock_enter(p) ==
    /\ hnd[p].st = "entering"
    /\ IF enter_loop(hnd[p])
       THEN LET ok == acquire_ok(lockFile, hnd[p].name) IN
            /\ hnd' = [hnd EXCEPT ![p] = enter_iteration(@, ok)]
            /\ lockFile' = IF ok THEN [lockFile EXCEPT ![hnd[p].name] = p] ELSE lockFile
       ELSE /\ hnd' = [hnd EXCEPT ![p].st = "raised", ![p].failed = TRUE]
            /\ UNCHANGED lockFile
    /\ UNCHANGED <<hostVars, procVars, shVars>>

\* lockfile.LockFile.release(): raises unless the caller holds the file
release_outcome(lf, name, p) ==
    IF lf[name] = p THEN "released"
    ELSE IF lf[name] = None THEN "NotLocked" ELSE "NotMyLock"

\* a broken __exit__: no test of self.acquired
exit_releases_always(h) == TRUE

\* __exit__ calls file.release() iff self.acquired
exit_releases(h) == h.acquired

\* __exit__ on handle h of process p: the new handle
exit_handle(h, lf, p) ==
    IF ~exit_releases(h) THEN [h EXCEPT !.st = "exited"]
    ELSE IF release_outcome(lf, h.name, p) = "released"
         THEN [h EXCEPT !.acquired = FALSE, !.st = "exited"]
         ELSE [h EXCEPT !.st = "exit_error"]

\* a broken __exit__: the lock file is left in place
exit_files_kept(h, lf, p) == lf

\* __exit__ on handle h of process p: the new lock files
exit_files(h, lf, p) ==
    IF exit_releases(h) /\ release_outcome(lf, h.name, p) = "released"
    THEN [lf EXCEPT ![h.name] = None]
    ELSE lf

\* ===================================================== PuppetManager.install

\* positions inside the `with` body of install()
InstallBody == {"install_check", "install_url", "install_head", "install_pkg_url",
                "install_refresh", "install_common", "install_puppet",
                "install_mkdir", "install_chmod", "install_facts", "install_exit"}

\* positions inside the `with` body of PuppetStandaloneRunner.configure()
ConfigureLockedBody == {"cfg_modules", "cfg_install", "cfg_download", "cfg_exit"}

\* positions inside PuppetAgentRunner.configure()
ConfigureAgentBody == {"agent_conf", "agent_mv"}

\* a broken run(): install() is skipped
run_first_phase_skip == "configure"

\* run() calls install() first
run_first_phase == "install"

\* run(tags, execute, manifest) is called: up to the `with` of install()
run_start(p) ==
    /\ pc[p] = "created"
    /\ IF run_first_phase = "install"
       THEN /\ pc' = [pc EXCEPT ![p] = "install_enter"]
            /\ hnd' = [hnd EXCEPT ![p] = enter_begin(
                          RetryingLock_init(PUPPET_INSTALL_LOCK.name,
                                            PUPPET_INSTALL_LOCK.retries))]
            /\ hist' = [hist EXCEPT ![p].installCalls = @ + 1]
       ELSE /\ pc' = [pc EXCEPT ![p] = "configure"]
            /\ UNCHANGED <<hnd, hist>>
    /\ UNCHANGED <<hostVars, lockFile, inp, exc, idx, scriptExit, shVars>>

\* a broken `with`: the body runs although __enter__ raised
install_enter_raised_runs_body == "install_check"

\* `with RetryingLock(...)` in install(): an exception of __enter__ skips the
\* body and propagates out of install() and out of run()
install_enter_raised == "failed"

\* __enter__ of the install lock raised: run() ends with the error
install_lock_failed(p) ==
    /\ pc[p] = "install_enter"
    /\ hnd[p].st = "raised"
    /\ pc' = [pc EXCEPT ![p] = install_enter_raised]
    /\ UNCHANGED <<hostVars, lockVars, inp, exc, idx, scriptExit, hist, shVars>>

\* the install lock is held: the `with` body starts
install_locked(p) ==
    /\ pc[p] = "install_enter"
    /\ hnd[p].st = "entered"
    /\ pc' = [pc EXCEPT ![p] = "install_check"]
    /\ UNCHANGED <<hostVars, lockVars, inp, exc, idx, scriptExit, hist, shVars>>

\* a broken install(): no test of puppet_is_installed()
install_after_check_always(installed) == "install_url"

\* `if self.puppet_is_installed(): return`
install_after_check(installed) == IF installed THEN "install_exit" ELSE "install_url"

\* puppet_is_installed() and the early return
puppet_is_installed(p) ==
    /\ pc[p] = "install_check"
    /\ pc' = [pc EXCEPT ![p] = install_after_check(puppetBin)]
    /\ hist' = [hist EXCEPT ![p].foundInstalled = puppetBin, ![p].checked = TRUE]
    /\ UNCHANGED <<hostVars, lockVars, inp, exc, idx, scriptExit, shVars>>

\* a step of the install() body that changes nothing on the host: on
\* failure the exception leaves the `with` body
InstallStep(p, from, to, ok) ==
    /\ pc[p] = from
    /\ pc' = [pc EXCEPT ![p] = IF ok THEN to ELSE "install_exit"]
    /\ exc' = [exc EXCEPT ![p] = ~ok]

\* get_repo_package_url(): raises when the distribution is not resolved
get_repo_package_url(p, ok) ==
    /\ InstallStep(p, "install_url", "install_head", ok)
    /\ UNCHANGED <<hostVars, lockVars, inp, idx, scriptExit, hist, shVars>>

\* a broken install(): the status of the HEAD request is ignored
head_raises_never(ok) == FALSE

\* `if response.status_code != requests.codes.ok: raise PuppetError(...)`
head_raises(ok) == ~ok

\* requests.head(url): PuppetError unless the status is OK
install_head(p, ok) ==
    /\ InstallStep(p, "install_head", "install_pkg_url", ~head_raises(ok))
    /\ hist' = [hist EXCEPT ![p].headFailed = ~ok]
    /\ UNCHANGED <<hostVars, lockVars, inp, idx, scriptExit, shVars>>

\* install_package_from_url(url)
install_package_from_url(p, ok) ==
    /\ InstallStep(p, "install_pkg_url", "install_refresh", ok)
    /\ hist' = [hist EXCEPT ![p].pkgCmds = @ + 1]
    /\ UNCHANGED <<hostVars, lockVars, inp, idx, scriptExit, shVars>>

\* refresh_packages_cache()
refresh_packages_cache(p, ok) ==
    /\ InstallStep(p, "install_refresh", "install_common", ok)
    /\ hist' = [hist EXCEPT ![p].pkgCmds = @ + 1]
    /\ UNCHANGED <<hostVars, lockVars, inp, idx, scriptExit, shVars>>

\* install_package('puppet-common', version); whether this package already
\* puts `puppet` on root's PATH depends on the distribution's packaging
install_package_common(p, ok, bin) ==
    /\ InstallStep(p, "install_common", "install_puppet", ok)
    /\ puppetBin' = (puppetBin \/ (ok /\ bin))
    /\ hist' = [hist EXCEPT ![p].pkgCmds = @ + 1]
    /\ UNCHANGED <<dirs, customFacts, installedModules, puppetConf, repo, tmpFiles,
                   lockVars, inp, idx, scriptExit, shVars>>

\* install_package('puppet', version); EXTRA_PACKAGES is empty for the one
\* installer whose get_repo_package_url returns
install_package_puppet(p, ok) ==
    /\ InstallStep(p, "install_puppet", "install_mkdir", ok)
    /\ puppetBin' = (puppetBin \/ ok)
    /\ hist' = [hist EXCEPT ![p].pkgCmds = @ + 1,
                            ![p].pkgSeqDone = ok]
    /\ UNCHANGED <<dirs, customFacts, installedModules, puppetConf, repo, tmpFiles,
                   lockVars, inp, idx, scriptExit, shVars>>

\* _sudo("mkdir", "-p", *DIRS.values())
install_mkdir(p, ok) ==
    /\ InstallStep(p, "install_mkdir", "install_chmod", ok)
    /\ dirs' = IF ok /\ dirs = "absent" THEN "made" ELSE dirs
    /\ hist' = [hist EXCEPT ![p].dirCmds = @ + 1]
    /\ UNCHANGED <<puppetBin, customFacts, installedModules, puppetConf, repo, tmpFiles,
                   lockVars, inp, idx, scriptExit, shVars>>

\* _sudo("chmod", "700", *DIRS.values())
install_chmod(p, ok) ==
    /\ InstallStep(p, "install_chmod", "install_facts", ok)
    /\ dirs' = IF ok THEN "mode700" ELSE dirs
    /\ hist' = [hist EXCEPT ![p].dirCmds = @ + 1]
    /\ UNCHANGED <<puppetBin, customFacts, installedModules, puppetConf, repo, tmpFiles,
                   lockVars, inp, idx, scriptExit, shVars>>

\* install_custom_facts()
install_custom_facts(p, ok) ==
    /\ InstallStep(p, "install_facts", "install_exit", ok)
    /\ customFacts' = (customFacts \/ ok)
    /\ hist' = [hist EXCEPT ![p].dirCmds = @ + 1]
    /\ UNCHANGED <<puppetBin, dirs, installedModules, puppetConf, repo, tmpFiles,
                   lockVars, inp, idx, scriptExit, shVars>>

\* a broken scope: __exit__ is skipped when the body raised
with_calls_exit_on_return_only(raised) == ~raised

\* the `with` statement calls __exit__ when the body returns and when it raises
with_calls_exit(raised) == TRUE

\* the handle and the lock files after control leaves a `with` body
WithExitHandle(p) ==
    IF with_calls_exit(exc[p]) THEN exit_handle(hnd[p], lockFile, p) ELSE hnd[p]
WithExitFiles(p) ==
    IF with_calls_exit(exc[p]) THEN exit_files(hnd[p], lockFile, p) ELSE lockFile

\* control leaves the `with` of install(): __exit__, then install() returns
\* to run() or the exception propagates out of run()
install_exit(p) ==
    /\ pc[p] = "install_exit"
    /\ hnd' = [hnd EXCEPT ![p] = WithExitHandle(p)]
    /\ lockFile' = WithExitFiles(p)
    /\ pc' = [pc EXCEPT ![p] = IF exc[p] THEN "failed" ELSE "configure"]
    /\ hist' = [hist EXCEPT ![p].installRet = ~exc[p]]
    /\ exc' = [exc EXCEPT ![p] = FALSE]
    /\ UNCHANGED <<hostVars, inp, idx, scriptExit, shVars>>

\* ============================================ PuppetRunner.configure variants

\* PuppetRunner.get_runner_class: 'server' in puppet_config
get_runner_class(i) == IF i.server THEN "PuppetAgentRunner" ELSE "PuppetStandaloneRunner"

\* `download = props['download']; if not isinstance(download, list): ...`
DownloadList(i) == i.download.urls

\* run() calls self.configure(): the agent runner starts rendering, the
\* standalone runner enters `with RetryingLock(ctx, *PUPPET_CONFIG_LOCK)`
configure_start(p) ==
    /\ pc[p] = "configure"
    /\ hist' = [hist EXCEPT ![p].configureCalls = @ + 1]
    /\ IF get_runner_class(inp[p]) = "PuppetAgentRunner"
       THEN /\ pc' = [pc EXCEPT ![p] = "agent_conf"]
            /\ UNCHANGED hnd
       ELSE /\ pc' = [pc EXCEPT ![p] = "configure_enter"]
            /\ hnd' = [hnd EXCEPT ![p] = enter_begin(
                          RetryingLock_init(PUPPET_CONFIG_LOCK.name,
                                            PUPPET_CONFIG_LOCK.retries))]
    /\ UNCHANGED <<hostVars, lockFile, inp, exc, idx, scriptExit, shVars>>

\* PuppetAgentRunner.configure: _get_config_file_contents() and the
\* temporary file of _sudo_write_file
agent_config_contents(p) ==
    /\ pc[p] = "agent_conf"
    /\ pc' = [pc EXCEPT ![p] = "agent_mv"]
    /\ UNCHANGED <<hostVars, lockVars, inp, exc, idx, scriptExit, hist, shVars>>

\* _sudo_write_file: _sudo("mv", temp_file.name, '/etc/puppet/puppet.conf')
agent_sudo_write_file(p, ok) ==
    /\ pc[p] = "agent_mv"
    /\ puppetConf' = IF ok THEN p ELSE puppetConf
    /\ pc' = [pc EXCEPT ![p] = IF ok THEN "run_facts" ELSE "failed"]
    /\ hist' = [hist EXCEPT ![p].configureRet = ok]
    /\ UNCHANGED <<puppetBin, dirs, customFacts, installedModules, repo, tmpFiles,
                   lockVars, inp, exc, idx, scriptExit, shVars>>

\* __enter__ of the configure lock raised: run() ends with the error
configure_lock_failed(p) ==
    /\ pc[p] = "configure_enter"
    /\ hnd[p].st = "raised"
    /\ pc' = [pc EXCEPT ![p] = "failed"]
    /\ UNCHANGED <<hostVars, lockVars, inp, exc, idx, scriptExit, hist, shVars>>

\* the configure lock is held: `for module in modules` starts
configure_locked(p) ==
    /\ pc[p] = "configure_enter"
    /\ hnd[p].st = "entered"
    /\ pc' = [pc EXCEPT ![p] = "cfg_modules"]
    /\ idx' = [idx EXCEPT ![p] = 1]
    /\ UNCHANGED <<hostVars, lockVars, inp, exc, scriptExit, hist, shVars>>

\* a broken loop body: every requested module is installed again
module_needed_always(module, installed_modules) == TRUE

\* `if module not in installed_modules`
module_needed(module, installed_modules) == module \notin installed_modules

\* one iteration of `for module in modules`, up to the test
\* `module not in installed_modules`; get_installed_modules() may raise
get_installed_modules(p, ok) ==
    /\ pc[p] = "cfg_modules"
    /\ idx[p] <= Len(inp[p].modules)
    /\ IF ~ok
       THEN /\ pc' = [pc EXCEPT ![p] = "cfg_exit"]
            /\ exc' = [exc EXCEPT ![p] = TRUE]
            /\ UNCHANGED idx
       ELSE /\ exc' = exc
            /\ IF module_needed(inp[p].modules[idx[p]], installedModules)
               THEN /\ pc' = [pc EXCEPT ![p] = "cfg_install"]
                    /\ UNCHANGED idx
               ELSE /\ pc' = pc
                    /\ idx' = [idx EXCEPT ![p] = @ + 1]
    /\ UNCHANGED <<hostVars, lockVars, inp, scriptExit, hist, shVars>>

\* _sudo('puppet', 'module', 'install', module)
module_install(p, ok) ==
    /\ pc[p] = "cfg_install"
    /\ installedModules' = IF ok THEN installedModules \cup {inp[p].modules[idx[p]]}
                           ELSE installedModules
    /\ pc' = [pc EXCEPT ![p] = IF ok THEN "cfg_modules" ELSE "cfg_exit"]
    /\ idx' = [idx EXCEPT ![p] = IF ok THEN @ + 1 ELSE @]
    /\ exc' = [exc EXCEPT ![p] = ~ok]
    /\ hist' = [hist EXCEPT ![p].cfgLog = Append(@, <<"module", inp[p].modules[idx[p]]>>)]
    /\ UNCHANGED <<puppetBin, dirs, customFacts, puppetConf, repo, tmpFiles,
                   lockVars, inp, scriptExit, shVars>>

\* the module loop is over: `if 'download' in props`
modules_done(p) ==
    /\ pc[p] = "cfg_modules"
    /\ idx[p] > Len(inp[p].modules)
    /\ pc' = [pc EXCEPT ![p] = "cfg_download"]
    /\ idx' = [idx EXCEPT ![p] = 1]
    /\ UNCHANGED <<hostVars, lockVars, inp, exc, scriptExit, hist, shVars>>

\* _url_to_dir(dl, DIRS['local_repo']): download, then `sudo tar -C`
url_to_dir(p, ok) ==
    /\ pc[p] = "cfg_download"
    /\ idx[p] <= Len(DownloadList(inp[p]))
    /\ repo' = IF ok THEN repo \cup {DownloadList(inp[p])[idx[p]]} ELSE repo
    /\ pc' = [pc EXCEPT ![p] = IF ok THEN "cfg_download" ELSE "cfg_exit"]
    /\ idx' = [idx EXCEPT ![p] = IF ok THEN @ + 1 ELSE @]
    /\ exc' = [exc EXCEPT ![p] = ~ok]
    /\ hist' = [hist EXCEPT ![p].cfgLog = Append(@, <<"download", DownloadList(inp[p])[idx[p]]>>)]
    /\ UNCHANGED <<puppetBin, dirs, customFacts, installedModules, puppetConf, tmpFiles,
                   lockVars, inp, scriptExit, shVars>>

\* the download loop is over (or there is no 'download'): the body returns
downloads_done(p) ==
    /\ pc[p] = "cfg_download"
    /\ idx[p] > Len(DownloadList(inp[p]))
    /\ pc' = [pc EXCEPT ![p] = "cfg_exit"]
    /\ UNCHANGED <<hostVars, lockVars, inp, exc, idx, scriptExit, hist, shVars>>

\* control leaves the `with` of configure(): __exit__, then configure()
\* returns to run() or the exception propagates out of run()
configure_exit(p) ==
    /\ pc[p] = "cfg_exit"
    /\ hnd' = [hnd EXCEPT ![p] = WithExitHandle(p)]
    /\ lockFile' = WithExitFiles(p)
    /\ pc' = [pc EXCEPT ![p] = IF exc[p] THEN "failed" ELSE "run_facts"]
    /\ hist' = [hist EXCEPT ![p].configureRet = ~exc[p]]
    /\ exc' = [exc EXCEPT ![p] = FALSE]
    /\ UNCHANGED <<hostVars, inp, idx, scriptExit, shVars>>

\* ========================================================= PuppetRunner.run

RECURSIVE BitAnd(_, _)
\* bitwise and of two naturals, the shell's $((a & b))
BitAnd(a, b) ==
    IF a = 0 \/ b = 0 THEN 0
    ELSE (a % 2) * (b % 2) + 2 * BitAnd(a \div 2, b \div 2)

\* a broken script: no test of the value 1
ScriptExit_no_one(e) == IF BitAnd(e, 4) = 4 THEN 4 ELSE 0

\* the tail of the run script, on the agent's exit status e:
\*   if [ $e -eq 1 ];then exit 1;fi
\*   if [ $(($e & 4)) -eq 4 ];then exit 4;fi
\*   exit 0
ScriptExit(e) ==
    IF e = 1 THEN 1
    ELSE IF BitAnd(e, 4) = 4 THEN 4
    ELSE 0

\* _sudo: subprocess.check_call raises CalledProcessError, and _sudo
\* SudoError, iff the command's exit status is not 0
sudo_raises(rc) == rc # 0

\* the exit statuses the run script can end with
ScriptExits == {ScriptExit(e) : e \in ExitCodes}

\* run() after _sudo(run_file.name): the exception propagates, or the
\* cleanup follows
run_after_exec(rc) == IF sudo_raises(rc) THEN "failed" ELSE "run_cleanup"

\* a broken run(): the reserved key is not looked for
facts_rejected_never(facts) == FALSE

\* `if 'cloudify' in facts: raise PuppetParamsError(...)`
facts_rejected(facts) == "cloudify" \in facts

\* the facts mapping of run(), `'cloudify' in facts`, and the facts file
run_facts(p) ==
    /\ pc[p] = "run_facts"
    /\ IF facts_rejected(inp[p].facts)
       THEN /\ pc' = [pc EXCEPT ![p] = "failed"]
            /\ UNCHANGED <<inp, tmpFiles>>
       ELSE /\ pc' = [pc EXCEPT ![p] = "run_cmd"]
            \* props.get('facts', {}) is the mapping of puppet_config itself
            \* when the key is there
            /\ inp' = IF inp[p].hasFacts
                      THEN [inp EXCEPT ![p].facts = @ \cup {"cloudify"}]
                      ELSE inp
            /\ tmpFiles' = tmpFiles \cup {<<p, "facts">>}
    /\ UNCHANGED <<puppetBin, dirs, customFacts, installedModules, puppetConf, repo,
                   lockVars, exc, idx, scriptExit, hist, shVars>>

\* get_runner_cmd() succeeds: the agent runner always, the standalone
\* runner iff execute or manifest is given (cmd_done)
runner_cmd_ok(i) ==
    get_runner_class(i) = "PuppetAgentRunner" \/ i.execute \/ i.manifest

\* get_runner_cmd() and the run script file
run_cmd(p) ==
    /\ pc[p] = "run_cmd"
    /\ IF runner_cmd_ok(inp[p])
       THEN /\ pc' = [pc EXCEPT ![p] = "run_chmod"]
            /\ tmpFiles' = tmpFiles \cup {<<p, "run">>}
       ELSE /\ pc' = [pc EXCEPT ![p] = "failed"]
            /\ UNCHANGED tmpFiles
    /\ UNCHANGED <<puppetBin, dirs, customFacts, installedModules, puppetConf, repo,
                   lockVars, inp, exc, idx, scriptExit, hist, shVars>>

\* _sudo('chmod', '+x', run_file.name)
run_chmod(p, ok) ==
    /\ pc[p] = "run_chmod"
    /\ pc' = [pc EXCEPT ![p] = IF ok THEN "run_exec" ELSE "failed"]
    /\ UNCHANGED <<hostVars, lockVars, inp, exc, idx, scriptExit, hist, shVars>>

\* _sudo(run_file.name): the script runs the agent command and exits rc
run_exec(p, rc) ==
    /\ pc[p] = "run_exec"
    /\ scriptExit' = [scriptExit EXCEPT ![p] = {rc}]
    /\ pc' = [pc EXCEPT ![p] = run_after_exec(rc)]
    /\ hist' = [hist EXCEPT ![p].execCalls = @ + 1]
    /\ UNCHANGED <<hostVars, lockVars, inp, exc, idx, shVars>>

\* a broken cleanup: nothing is removed
removed_on_success_nothing(p) == {}

\* the files run() removes after the script: os.remove(facts_file.name)
removed_on_success(p) == {<<p, "facts">>}

\* os.remove(facts_file.name); run() returns
run_cleanup(p) ==
    /\ pc[p] = "run_cleanup"
    /\ tmpFiles' = tmpFiles \ removed_on_success(p)
    /\ pc' = [pc EXCEPT ![p] = "done"]
    /\ UNCHANGED <<puppetBin, dirs, customFacts, installedModules, puppetConf, repo,
                   lockVars, inp, exc, idx, scriptExit, hist, shVars>>

\* ========================================================== specifications

NoHist == [installCalls |-> 0, configureCalls |-> 0, execCalls |-> 0,
           installRet |-> FALSE, configureRet |-> FALSE,
           foundInstalled |-> FALSE, pkgCmds |-> 0, pkgSeqDone |-> FALSE,
           cfgLog |-> <<>>,
           \* the keys of puppet_config['facts'] as the caller supplied them
           suppliedFacts |-> {},
           \* puppet_is_installed() was called; the HEAD request was refused;
           \* mkdir / chmod / custom facts commands issued
           checked |-> FALSE, headFailed |-> FALSE, dirCmds |-> 0]

\* the host before any orchestrator has run (the agent may be preinstalled),
\* and the orchestrators constructed
InitManager ==
    /\ lockFile = [l \in LockNames |-> None]
    /\ puppetBin \in BOOLEAN
    /\ dirs = "absent"
    /\ customFacts = FALSE
    /\ installedModules = {}
    /\ puppetConf = None
    /\ repo = {}
    /\ tmpFiles = {}
    /\ inp \in [Procs -> Inputs]
    /\ pc = [p \in Procs |-> "created"]
    /\ hnd = [p \in Procs |-> NoHandle]
    /\ exc = [p \in Procs |-> FALSE]
    /\ idx = [p \in Procs |-> 1]
    /\ scriptExit = [p \in Procs |-> {}]
    /\ hist = [p \in Procs |-> [NoHist EXCEPT !.suppliedFacts = inp[p].facts]]

\* no script harness, no function harness
NoScript == shE = None /\ shExit = {} /\ shNext = None
NoUnit == uIn = [st |-> "none"] /\ uOut = [st |-> "none"]

Init ==
    /\ InitManager
    /\ NoScript
    /\ NoUnit

\* one step of run() in process p
ProcNext(p) ==
    \/ run_start(p)
    \/ RetryingLock_enter(p)
    \/ install_lock_failed(p)
    \/ install_locked(p)
    \/ puppet_is_installed(p)
    \/ \E ok \in BOOLEAN : get_repo_package_url(p, ok)
    \/ \E ok \in BOOLEAN : install_head(p, ok)
    \/ \E ok \in BOOLEAN : install_package_from_url(p, ok)
    \/ \E ok \in BOOLEAN : refresh_packages_cache(p, ok)
    \/ \E ok, bin \in BOOLEAN : install_package_common(p, ok, bin)
    \/ \E ok \in BOOLEAN : install_package_puppet(p, ok)
    \/ \E ok \in BOOLEAN : install_mkdir(p, ok)
    \/ \E ok \in BOOLEAN : install_chmod(p, ok)
    \/ \E ok \in BOOLEAN : install_custom_facts(p, ok)
    \/ install_exit(p)
    \/ configure_start(p)
    \/ agent_config_contents(p)
    \/ \E ok \in BOOLEAN : agent_sudo_write_file(p, ok)
    \/ configure_lock_failed(p)
    \/ configure_locked(p)
    \/ \E ok \in BOOLEAN : get_installed_modules(p, ok)
    \/ \E ok \in BOOLEAN : module_install(p, ok)
    \/ modules_done(p)
    \/ \E ok \in BOOLEAN : url_to_dir(p, ok)
    \/ downloads_done(p)
    \/ configure_exit(p)
    \/ run_facts(p)
    \/ run_cmd(p)
    \/ \E ok \in BOOLEAN : run_chmod(p, ok)
    \/ \E rc \in ScriptExits : run_exec(p, rc)
    \/ run_cleanup(p)

Next == \E p \in Procs : ProcNext(p)

Spec == Init /\ [][Next]_vars

\* ------------------------------------------------- RetryingLock used directly

\* the manager does not run in LockSpec and ScriptSpec
Idle ==
    /\ InitManager
    /\ puppetBin = FALSE
    /\ inp = [p \in Procs |-> CHOOSE i \in Inputs : i.server]

\* a client constructs RetryingLock(ctx, lock_name, retries, sleep)
lock_new(p, name, retries) ==
    /\ hnd[p].st \in {"none", "raised", "exited"}
    /\ ~hnd[p].acquired
    /\ hnd' = [hnd EXCEPT ![p] = RetryingLock_init(name, retries)]
    /\ UNCHANGED <<hostVars, lockFile, procVars, shVars>>

\* the client calls __enter__
lock_enter(p) ==
    /\ hnd[p].st \in {"new", "raised", "exited"}
    /\ ~hnd[p].acquired
    /\ hnd' = [hnd EXCEPT ![p] = enter_begin(@)]
    /\ UNCHANGED <<hostVars, lockFile, procVars, shVars>>

\* the client calls __exit__, whether or not __enter__ succeeded
lock_exit(p) ==
    /\ hnd[p].st \in {"new", "entered", "raised", "exited"}
    /\ hnd' = [hnd EXCEPT ![p] = exit_handle(@, lockFile, p)]
    /\ lockFile' = exit_files(hnd[p], lockFile, p)
    /\ UNCHANGED <<hostVars, procVars, shVars>>

LockInit ==
    /\ Idle
    /\ NoScript
    /\ NoUnit

LockNext ==
    \E p \in Procs :
        \/ \E name \in LockNames, retries \in 0..MaxRetries : lock_new(p, name, retries)
        \/ lock_enter(p)
        \/ RetryingLock_enter(p)
        \/ lock_exit(p)

LockSpec == LockInit /\ [][LockNext]_vars

\* ------------------------------------------- the run script on one exit status

\* the run script runs on the agent exit status shE, under _sudo
script_run ==
    /\ shExit = {}
    /\ shExit' = {ScriptExit(shE)}
    /\ shNext' = run_after_exec(ScriptExit(shE))
    /\ UNCHANGED <<hostVars, lockVars, procVars, shE, uIn, uOut>>

ScriptInit ==
    /\ Idle
    /\ shE \in ExitCodes
    /\ shExit = {}
    /\ shNext = None
    /\ NoUnit

ScriptNext == script_run

ScriptSpec == ScriptInit /\ [][ScriptNext]_vars

\* --------------------------------- PuppetStandaloneRunner.get_runner_cmd

\* the sequences over S of length at most n
RECURSIVE SeqsUpTo(_, _)
SeqsUpTo(S, n) ==
    IF n = 0 THEN {<<>>}
    ELSE LET shorter == SeqsUpTo(S, n - 1) IN
         shorter \cup {Append(t, c) : t \in shorter, c \in S}

\* an optional text argument: None, or a string
NoText == [given |-> FALSE, s |-> <<>>]
Text(s) == [given |-> TRUE, s |-> s]

\* Python truthiness of an optional string: `if e:`
Truthy(x) == x.given /\ x.s # <<>>

\* s.replace("'", "'\"'\"'")
RECURSIVE replace_quote(_)
replace_quote(s) ==
    IF s = <<>> THEN <<>>
    ELSE (IF Head(s) = "'" THEN <<"'", "\"", "'", "\"", "'">> ELSE <<Head(s)>>)
         \o replace_quote(Tail(s))

\* quote_shell_arg(s)
quote_shell_arg(s) == <<"'">> \o replace_quote(s) \o <<"'">>

\* DIRS['local_repo'] and get_modules_path(), fixed texts
LOCAL_REPO == "~/cloudify/puppet"
MODULES_PATH ==
    "/etc/puppet/modules:/usr/share/puppet/modules:/opt/cloudify/puppet/modules:~/cloudify/puppet/modules"

\* os.path.join(a, m): m alone when it is absolute
path_join(a, m) == IF m # <<>> /\ Head(m) = "/" THEN m ELSE <<a, "/">> \o m

\* the start of the standalone command: apply, --modulepath, --environment
runner_cmd_base(environment) ==
    <<  <<"apply">>, <<"--modulepath=", MODULES_PATH>>  >>
    \o (IF Truthy(environment) THEN << <<"--environment">>, environment.s >> ELSE <<>>)

\* PuppetStandaloneRunner.get_runner_cmd on self.environment, self.execute
\* and self.manifest: the list of arguments, or PuppetParamsError
get_runner_cmd(environment, e, m) ==
    LET cmd1 == runner_cmd_base(environment)
        cmd2 == IF Truthy(e) THEN cmd1 \o << <<"--execute">>, quote_shell_arg(e.s) >>
                ELSE cmd1
        cmd3 == IF Truthy(m)
                THEN cmd2 \o << quote_shell_arg(path_join(LOCAL_REPO, m.s)) >>
                ELSE cmd2
        cmd_done == Truthy(e) \/ Truthy(m)
    IN IF cmd_done THEN [st |-> "ok", cmd |-> cmd3]
       ELSE [st |-> "PuppetParamsError", cmd |-> <<>>]

\* the arguments get_runner_cmd is applied to
CmdInputs ==
    [environment : {NoText, Text(<<"p", "1">>)},
     execute : {NoText} \cup {Text(t) : t \in SeqsUpTo({"n", "'"}, MaxArgLen)},
     manifest : {NoText} \cup {Text(t) : t \in SeqsUpTo({"s", "/"}, MaxArgLen)}]

\* get_runner_cmd() is called
cmd_build ==
    /\ uOut.st = "none"
    /\ uOut' = get_runner_cmd(uIn.environment, uIn.execute, uIn.manifest)
    /\ UNCHANGED <<hostVars, lockVars, procVars, shE, shExit, shNext, uIn>>

CmdInit ==
    /\ Idle
    /\ NoScript
    /\ uIn \in CmdInputs
    /\ uOut = [st |-> "none"]

CmdNext == cmd_build

CmdSpec == CmdInit /\ [][CmdNext]_vars

\* ---------------------------------------------------- PuppetManager(ctx)

\* str.lower() on the letters
UpperCase == <<"A", "B", "C", "D", "E", "F", "G", "H", "I", "J", "K", "L", "M",
               "N", "O", "P", "Q", "R", "S", "T", "U", "V", "W", "X", "Y", "Z">>
LowerCase == <<"a", "b", "c", "d", "e", "f", "g", "h", "i", "j", "k", "l", "m",
               "n", "o", "p", "q", "r", "s", "t", "u", "v", "w", "x", "y", "z">>
Digits == {"0", "1", "2", "3", "4", "5", "6", "7", "8", "9"}
lower_char(c) ==
    IF \E i \in 1..Len(UpperCase) : UpperCase[i] = c
    THEN LowerCase[CHOOSE i \in 1..Len(UpperCase) : UpperCase[i] = c]
    ELSE c
lower(s) == [i \in 1..Len(s) |-> lower_char(s[i])]

\* platform.linux_distribution()[0] on the hosts considered
Distros ==
    { <<"U", "b", "u", "n", "t", "u">>, <<"u", "b", "u", "n", "t", "u">>,
      <<"d", "e", "b", "i", "a", "n">>, <<"M", "i", "n", "t">>,
      <<"c", "e", "n", "t", "o", "s">>, <<"C", "e", "n", "t", "O", "S">>,
      <<"r", "e", "d", "h", "a", "t">>, <<"f", "e", "d", "o", "r", "a">>,
      <<"F", "e", "d", "o", "r", "a">>, <<"S", "u", "S", "E">>, <<>> }

\* the direct subclasses of PuppetInstaller, in definition order
InstallerClasses == <<"PuppetDebianInstaller", "PuppetRHELInstaller">>

\* PuppetDebianInstaller._installer_handles / PuppetRHELInstaller._installer_handles
installer_handles(c, distro) ==
    IF c = "PuppetDebianInstaller"
    THEN lower(distro) \in { <<"d", "e", "b", "i", "a", "n">>,
                             <<"u", "b", "u", "n", "t", "u">>,
                             <<"m", "i", "n", "t">> }
    ELSE distro \in { <<"r", "e", "d", "h", "a", "t">>,
                      <<"c", "e", "n", "t", "o", "s">>,
                      <<"f", "e", "d", "o", "r", "a">> }

\* a broken dispatch: only several matching classes are an error
dispatch_fails_on_many(n) == n > 1

\* `if len(classes) != 1: raise PuppetInternalLogicError(...)`
dispatch_fails(n) == n # 1

\* PuppetInstaller.get_installer_class(); classes[0] of an empty list is an
\* IndexError
get_installer_class(distro) ==
    LET classes == SelectSeq(InstallerClasses, LAMBDA c : installer_handles(c, distro))
    IN  IF dispatch_fails(Len(classes))
        THEN [st |-> "PuppetInternalLogicError", cls |-> None]
        ELSE IF classes = <<>>
             THEN [st |-> "IndexError", cls |-> None]
             ELSE [st |-> "ok", cls |-> classes[1]]

\* re.sub('[- .]', '_', e)
re_sub_separators(e) == [i \in 1..Len(e) |-> IF e[i] \in {"-", " ", "."} THEN "_" ELSE e[i]]

\* a broken set_environment(): every environment passes
PUPPET_ENV_RE_any(env) == TRUE

\* PUPPET_ENV_RE.match(env), the pattern \A[a-z0-9]+\Z
PUPPET_ENV_RE(env) ==
    /\ env # <<>>
    /\ \A i \in 1..Len(env) :
          env[i] \in Digits \/ \E k \in 1..Len(LowerCase) : LowerCase[k] = env[i]

\* PuppetRunner.set_environment(e): the error, or the value of self.environment
set_environment(e) ==
    LET env == re_sub_separators(e)
    IN  IF ~PUPPET_ENV_RE(env)
        THEN [st |-> "PuppetParamsError", environment |-> NoText]
        ELSE [st |-> "ok", environment |-> Text(env)]

\* process_properties() of the two runners; self.environment is None before
process_properties(r, props) ==
    IF r = "PuppetAgentRunner"
    THEN IF ~props.environment.given
         THEN [st |-> "PuppetParamsError", environment |-> NoText]
         ELSE set_environment(props.environment.s)
    ELSE LET env == IF props.environment.given
                    THEN set_environment(props.environment.s)
                    ELSE [st |-> "ok", environment |-> NoText]
         IN  IF env.st # "ok" THEN env
             ELSE IF props.modules = "other"
             THEN [st |-> "RuntimeError", environment |-> env.environment]
             ELSE IF ~props.source
             THEN [st |-> "PuppetParamsError", environment |-> env.environment]
             ELSE env

\* no configuration file rendered
NoConf == [rendered |-> FALSE]

\* no orchestrator object: the constructor raised st
NoManager(st) ==
    [st |-> st, runner |-> None, installer |-> None, environment |-> NoText,
     conf |-> NoConf]

\* PuppetManager(ctx): __new__ picks the runner and the installer class,
\* __init__ reads puppet_config
PuppetManager_new(host, props) ==
    LET r == get_runner_class(props)
        i == get_installer_class(host)
        pp == process_properties(r, props)
    IN  IF i.st # "ok" THEN NoManager(i.st)
        ELSE IF pp.st # "ok" THEN NoManager(pp.st)
        ELSE [st |-> "ok", runner |-> r, installer |-> i.cls,
              environment |-> pp.environment, conf |-> NoConf]

\* ctx.node_id and puppet_config['server'] of the orchestrators constructed
NODE_ID == "web-3"
SERVER == "puppetmaster.example"

\* PuppetAgentRunner._get_config_file_contents(): the values PUPPET_CONF_TPL
\* is formatted with (no node_name_prefix / node_name_suffix; certname is
\* the UTC minute, '-' and node_name)
get_config_file_contents(m) ==
    [rendered |-> TRUE,
     environment |-> m.environment.s,
     modulepath |-> MODULES_PATH,
     server |-> SERVER,
     node_name |-> NODE_ID]

\* the environment values tried: every text up to MaxEnvLen over lower case,
\* upper case, digit, '_', '-', '.', ' ', and "Prod-1"
EnvAlphabet == {"a", "P", "1", "_", "-", ".", " "}
Prod_1 == <<"P", "r", "o", "d", "-", "1">>
EnvTexts == SeqsUpTo(EnvAlphabet, MaxEnvLen) \cup {Prod_1}

\* a host and a puppet_config: server (the key is there), environment,
\* modules ("absent", "list", or "other": not a list), source (the key
\* 'execute' or 'manifest' is there)
CtorInputs ==
    [distro : Distros,
     server : BOOLEAN,
     environment : {NoText} \cup {Text(t) : t \in EnvTexts},
     modules : {"absent", "list", "other"},
     source : BOOLEAN]

\* PuppetManager(ctx)
ctor_new ==
    /\ uOut.st = "none"
    /\ uOut' = PuppetManager_new(uIn.distro, uIn)
    /\ UNCHANGED <<hostVars, lockVars, procVars, shE, shExit, shNext, uIn>>

\* the agent runner's configure() renders the configuration file
ctor_conf ==
    /\ uOut.st = "ok"
    /\ uOut.runner = "PuppetAgentRunner"
    /\ ~uOut.conf.rendered
    /\ uOut' = [uOut EXCEPT !.conf = get_config_file_contents(uOut)]
    /\ UNCHANGED <<hostVars, lockVars, procVars, shE, shExit, shNext, uIn>>

CtorInit ==
    /\ Idle
    /\ NoScript
    /\ uIn \in CtorInputs
    /\ uOut = [st |-> "none"]

CtorNext == ctor_new \/ ctor_conf

CtorSpec == CtorInit /\ [][CtorNext]_vars

\* ================================================================== claims

InstallLock == PUPPET_INSTALL_LOCK.name
ConfigLock == PUPPET_CONFIG_LOCK.name

\* C1: for every interleaving of the processes, at most one process is
\* inside the body guarded by the install lock and at most one inside the
\* body guarded by the configure lock, and no two handles of the same lock
\* name are acquired at once.
C1_MutualExclusion ==
    \A p, q \in Procs : p # q =>
        /\ ~(pc[p] \in InstallBody /\ pc[q] \in InstallBody)
        /\ ~(pc[p] \in ConfigureLockedBody /\ pc[q] \in ConfigureLockedBody)
        /\ ~(hnd[p].acquired /\ hnd[q].acquired /\ hnd[p].name = hnd[q].name)

\* C1 witness: one process is inside install()'s body while another has
\* already timed out on the same lock and is still trying.
C1_Witness ==
    \E p, q \in Procs :
        /\ p # q
        /\ pc[p] \in InstallBody
        /\ lockFile[InstallLock] = p
        /\ pc[q] = "install_enter"
        /\ hnd[q].st = "entering"
        /\ hnd[q].attempts > 0

\* positions at which a process is about to change shared host state from
\* configure(): the mv onto /etc/puppet/puppet.conf, a module installation,
\* an extraction into the module repository
ConfigureMutating(p) ==
    \/ pc[p] = "agent_mv"
    \/ pc[p] = "cfg_install"
    \/ pc[p] = "cfg_download" /\ idx[p] <= Len(DownloadList(inp[p]))

\* C2 (as claimed): configure() runs under the configure lock for every
\* runner variant, so no two processes are performing configure() mutations
\* of shared host state at the same time.
C2_ConfigureExclusive ==
    \A p, q \in Procs : p # q => ~(ConfigureMutating(p) /\ ConfigureMutating(q))

\* C3: an install() that found the agent installed has run no package
\* command; at most one process completes the package-installation
\* sequence; and once some install() has returned normally no process is
\* inside the package-installation sequence.
C3_InstallIdempotent ==
    /\ \A p \in Procs : hist[p].foundInstalled => hist[p].pkgCmds = 0
    /\ Cardinality({p \in Procs : hist[p].pkgSeqDone}) <= 1
    /\ (\E q \in Procs : hist[q].installRet) =>
           \A p \in Procs :
               pc[p] \notin {"install_url", "install_head", "install_pkg_url",
                             "install_refresh", "install_common", "install_puppet"}

\* C3 witness: one process installed the packages and returned, and another
\* process then found the agent installed and returned without a command.
C3_Witness ==
    \E p, q \in Procs :
        /\ p # q
        /\ hist[p].pkgSeqDone /\ hist[p].installRet /\ hist[p].pkgCmds = 4
        /\ hist[q].foundInstalled /\ hist[q].installRet /\ hist[q].pkgCmds = 0

\* C4: whenever control of a process is outside install() and outside the
\* standalone configure() (in particular during the run phase, after a
\* normal return, after the early return, after an exception in the body)
\* the process holds no lock.
C4_ReleasedOutsidePhases ==
    \A p \in Procs :
        pc[p] \notin (InstallBody \cup ConfigureLockedBody
                        \cup {"install_enter", "configure_enter"}) =>
            /\ ~hnd[p].acquired
            /\ \A l \in LockNames : lockFile[l] # p

\* C4 witness: a run has failed by an exception raised inside the body of
\* install() after package commands were run, and its handle was exited.
C4_Witness ==
    \E p \in Procs :
        /\ pc[p] = "failed"
        /\ hnd[p].name = InstallLock
        /\ hnd[p].st = "exited"
        /\ hist[p].pkgCmds > 0
        /\ ~hist[p].installRet

\* C5: __enter__ with retries = N makes one attempt at a time; a handle that
\* entered is acquired, holds the file and made at most N attempts, and no
\* further attempt follows the successful one; a handle whose __enter__
\* raised made exactly N attempts, and is not acquired then or afterwards.
C5_EnterAttempts ==
    /\ [](\A p \in Procs :
            /\ hnd[p].st = "entered" =>
                   /\ hnd[p].acquired
                   /\ lockFile[hnd[p].name] = p
                   /\ hnd[p].attempts >= 1
                   /\ hnd[p].attempts <= hnd[p].retries
            /\ hnd[p].st = "entering" => ~hnd[p].acquired
            /\ hnd[p].failed =>
                   /\ hnd[p].attempts = hnd[p].retries
                   /\ ~hnd[p].acquired)
    /\ [][\A p \in Procs :
            /\ hnd'[p].attempts \in {0, hnd[p].attempts, hnd[p].attempts + 1}
            /\ hnd[p].st = "entered" /\ hnd'[p].st # "entering" =>
                   hnd'[p].attempts = hnd[p].attempts]_vars

\* C5 witness: an __enter__ with retries = 2 has raised after two attempts
\* that timed out on a file another process holds.
C5_Witness ==
    \E p, q \in Procs :
        /\ p # q
        /\ hnd[p].st = "raised"
        /\ hnd[p].retries = 2
        /\ hnd[p].attempts = 2
        /\ lockFile[hnd[p].name] = q

\* C6: __exit__ on a handle that is not acquired raises nothing and leaves
\* the lock files as they are; and a lock file held by a process is released
\* only by that process's own acquired handle.
C6_ExitUnacquiredNoop ==
    [][\A p \in Procs :
         /\ (lock_exit(p) /\ ~hnd[p].acquired) =>
                /\ lockFile' = lockFile
                /\ hnd'[p].st = "exited"
                /\ ~hnd'[p].acquired
         /\ \A l \in LockNames :
                (lockFile[l] = p /\ lockFile'[l] # p) =>
                    /\ hnd[p].acquired /\ hnd[p].name = l
                    /\ ~hnd'[p].acquired
                    /\ lockFile'[l] = None]_vars

\* C6 witness: a process whose __enter__ failed has called __exit__ while
\* another process still holds that lock file.
C6_Witness ==
    \E p, q \in Procs :
        /\ p # q
        /\ hnd[p].st = "exited"
        /\ hnd[p].failed
        /\ hnd[q].acquired
        /\ hnd[q].name = hnd[p].name
        /\ lockFile[hnd[p].name] = q

\* C7: for every agent exit status e in 0..255 the script exits 1 if e = 1,
\* else 4 if bit 2 of e is set, else 0; run() fails exactly when the script's
\* exit is not 0; 0 and 2 succeed, 1, 4, 5 and 6 fail; the script's exit is
\* one of 0, 1, 4.
C7_ExitClassification ==
    \A rc \in shExit :
        /\ rc \in {0, 1, 4}
        /\ shE = 1 => rc = 1
        /\ (shE # 1 /\ (shE \div 4) % 2 = 1) => rc = 4
        /\ (shE # 1 /\ (shE \div 4) % 2 = 0) => rc = 0
        /\ (shNext = "failed") <=> (rc # 0)
        /\ shNext \in {"failed", "run_cleanup"}
        /\ shE \in {0, 2} => shNext = "run_cleanup"
        /\ shE \in {1, 4, 5, 6} => shNext = "failed"

\* C7 witness: the script ran on agent exit status 6, exited 4, and run()
\* fails.
C7_Witness == shE = 6 /\ shExit = {4} /\ shNext = "failed"

\* C8: in every run() each of install(), configure() and the agent
\* execution is attempted at most once, configure() only after install()
\* returned normally and the agent only after configure() returned normally
\* too, and a run that has failed stays failed and attempts nothing more.
C8_RunStateMachine ==
    /\ [](\A p \in Procs :
            /\ hist[p].installCalls <= 1
            /\ hist[p].configureCalls <= 1
            /\ hist[p].execCalls <= 1
            /\ hist[p].configureCalls > 0 => hist[p].installRet
            /\ hist[p].execCalls > 0 => (hist[p].installRet /\ hist[p].configureRet)
            /\ pc[p] = "done" => hist[p].execCalls = 1)
    /\ [][\A p \in Procs :
            pc[p] = "failed" => (pc'[p] = "failed" /\ hist'[p] = hist[p])]_vars

\* C8 witness: one run has gone through all three phases and returned, and
\* another has failed in configure() with no agent execution.
C8_Witness ==
    \E p, q \in Procs :
        /\ pc[p] = "done" /\ hist[p].execCalls = 1
        /\ pc[q] = "failed" /\ hist[q].configureCalls = 1 /\ ~hist[q].configureRet
        /\ hist[q].execCalls = 0

\* C9: after a run() that returned normally its facts file is gone; after a
\* run() that failed at the script execution its facts file is in place, as
\* it is from its creation to the cleanup.
C9_FactsFileCleanup ==
    \A p \in Procs :
        /\ pc[p] = "done" => <<p, "facts">> \notin tmpFiles
        /\ (pc[p] = "failed" /\ scriptExit[p] # {}) => <<p, "facts">> \in tmpFiles
        /\ pc[p] \in {"run_cmd", "run_chmod", "run_exec", "run_cleanup"} =>
               <<p, "facts">> \in tmpFiles

\* C9 witness: one run returned normally and another failed on the exit
\* status of its run script.
C9_Witness ==
    \E p, q \in Procs :
        /\ pc[p] = "done" /\ scriptExit[p] = {0}
        /\ pc[q] = "failed" /\ scriptExit[q] = {4}

\* C10 (as claimed): after a run() that returned normally neither its facts
\* file nor its run script remains.
C10_TempFilesRemoved ==
    \A p \in Procs :
        pc[p] = "done" =>
            /\ <<p, "facts">> \notin tmpFiles
            /\ <<p, "run">> \notin tmpFiles

\* C11 (as claimed): for every combination of execute and manifest the built
\* command is apply, --modulepath=<path>, --environment <env> if set, then
\* exactly one of `--execute <quoted text>` and `<quoted manifest path>`;
\* with neither given the build fails with a parameter error.
C11_ExactlyOneSource ==
    uOut.st # "none" =>
        LET base == runner_cmd_base(uIn.environment)
            byExecute == base \o << <<"--execute">>, quote_shell_arg(uIn.execute.s) >>
            byManifest == base \o << quote_shell_arg(path_join(LOCAL_REPO, uIn.manifest.s)) >>
        IN IF ~Truthy(uIn.execute) /\ ~Truthy(uIn.manifest)
           THEN uOut.st = "PuppetParamsError"
           ELSE /\ uOut.st = "ok"
                /\ \/ Truthy(uIn.execute) /\ uOut.cmd = byExecute
                   \/ Truthy(uIn.manifest) /\ uOut.cmd = byManifest

\* C12: when the facts mapping the caller supplied already has the reserved
\* key `cloudify`, run() raises at the facts bundle: from there the process
\* only fails, no facts file of that process is ever written and the agent
\* command is never executed in that run().
C12_ReservedFactRejected ==
    /\ [](\A p \in Procs :
            "cloudify" \in hist[p].suppliedFacts =>
                /\ <<p, "facts">> \notin tmpFiles
                /\ <<p, "run">> \notin tmpFiles
                /\ hist[p].execCalls = 0
                /\ scriptExit[p] = {}
                /\ pc[p] \notin {"run_cmd", "run_chmod", "run_exec", "run_cleanup", "done"})
    /\ [][\A p \in Procs :
            (pc[p] = "run_facts" /\ "cloudify" \in hist[p].suppliedFacts
                /\ pc'[p] # pc[p]) => pc'[p] = "failed"]_vars

\* a run() given facts with the reserved key has installed, configured and
\* failed
C12_Witness ==
    \E p \in Procs :
        /\ "cloudify" \in hist[p].suppliedFacts
        /\ hist[p].installRet /\ hist[p].configureRet
        /\ pc[p] = "failed"

\* C13 (as claimed): puppet_config is read-only to the core: whatever
\* install(), configure() and run() do, the `facts` mapping of puppet_config
\* stays exactly as the caller supplied it.
C13_ConfigReadOnly ==
    \A p \in Procs : inp[p].facts = hist[p].suppliedFacts

\* C14 (as claimed): an orchestrator with puppet_config = {environment:
\* "Prod-1", server: "puppetmaster.example"} on node web-3, on a host whose
\* installer is found, is accepted by the constructor, and its rendered
\* agent configuration has `environment = prod_1`.
C14_ProdScenarioAccepted ==
    (/\ uIn.server /\ uIn.environment = Text(Prod_1)
     /\ uIn.modules = "absent" /\ ~uIn.source
     /\ get_installer_class(uIn.distro).st = "ok"
     /\ uOut.st # "none") =>
        /\ uOut.st = "ok"
        /\ uOut.conf.rendered =>
               uOut.conf.environment = <<"p", "r", "o", "d", "_", "1">>

\* C15: for an environment over letters, digits, `_`, `.`, `-` and space,
\* normalization puts `_` for each `-`, `.` and space and leaves the rest;
\* the constructor accepts the configuration only if the normalized text
\* is one or more of a-z, 0-9, and fails with a parameter error otherwise;
\* a stored environment is such a text; normalizing twice is normalizing
\* once.
C15_EnvironmentNormalized ==
    LET e == uIn.environment.s
        n == re_sub_separators(e)
        LowerSet == {LowerCase[k] : k \in 1..Len(LowerCase)}
        Plain(t) == t # <<>> /\ \A i \in 1..Len(t) : t[i] \in LowerSet \cup Digits
    IN  (uOut.st # "none" /\ uIn.environment.given
            /\ get_installer_class(uIn.distro).st = "ok") =>
            /\ Len(n) = Len(e)
            /\ \A i \in 1..Len(e) :
                  n[i] = IF e[i] = "-" \/ e[i] = "." \/ e[i] = " " THEN "_" ELSE e[i]
            /\ re_sub_separators(n) = n
            /\ uOut.st = "ok" => (Plain(n) /\ uOut.environment = Text(n))
            /\ ~Plain(n) => uOut.st = "PuppetParamsError"
            /\ uOut.environment.given => Plain(uOut.environment.s)

\* an environment with a separator is normalized and then refused; the host's
\* installer was found
C15_Witness ==
    /\ uIn.environment = Text(<<"a", ".">>)
    /\ get_installer_class(uIn.distro).st = "ok"
    /\ uOut.st = "PuppetParamsError"
    /\ re_sub_separators(uIn.environment.s) = <<"a", "_">>

\* C16: the constructor selects an installer class iff exactly one class's
\* predicate holds of the host's distribution id, and then it is that
\* class; otherwise it fails with the internal logic error, there is no
\* orchestrator and so no step of it can follow.
C16_InstallerDispatch ==
    uOut.st # "none" =>
        LET matching == {k \in 1..Len(InstallerClasses) :
                            installer_handles(InstallerClasses[k], uIn.distro)}
        IN  /\ uOut.installer # None <=> (Cardinality(matching) = 1 /\ uOut.st = "ok")
            /\ uOut.installer # None =>
                   \E k \in matching : uOut.installer = InstallerClasses[k]
            /\ Cardinality(matching) # 1 =>
                   /\ uOut.st = "PuppetInternalLogicError"
                   /\ uOut.installer = None /\ uOut.runner = None
                   /\ ~uOut.conf.rendered
                   /\ ~ENABLED ctor_conf

\* a host whose distribution id matches no class: the constructor has
\* failed and nothing was selected
C16_Witness ==
    /\ uIn.distro = <<"C", "e", "n", "t", "O", "S">>
    /\ uIn.server /\ uIn.environment = Text(<<"a">>)
    /\ uOut.st = "PuppetInternalLogicError"
    /\ uOut.installer = None

\* C17: when the install lock is not acquired within its retries, install()
\* raises having run neither the installed-check nor a package command nor
\* a directory or custom-facts command; the run() that called it performs
\* no configure() and no agent execution, writes no file, and does not call
\* install() or __enter__ again: it has failed.
C17_InstallLockFailureFatal ==
    /\ [](\A p \in Procs :
            (hnd[p].name = InstallLock /\ hnd[p].st = "raised") =>
                /\ hnd[p].attempts = PUPPET_INSTALL_LOCK.retries
                /\ ~hnd[p].acquired /\ lockFile[InstallLock] # p
                /\ ~hist[p].checked
                /\ hist[p].pkgCmds = 0 /\ hist[p].dirCmds = 0
                /\ ~hist[p].installRet
                /\ hist[p].installCalls = 1
                /\ hist[p].configureCalls = 0 /\ hist[p].execCalls = 0
                /\ hist[p].cfgLog = <<>>
                /\ \A f \in tmpFiles : f[1] # p
                /\ pc[p] \in {"install_enter", "failed"})
    /\ [][\A p \in Procs :
            (hnd[p].name = InstallLock /\ hnd[p].st = "raised") =>
                /\ hnd'[p] = hnd[p] /\ hist'[p] = hist[p]
                /\ pc'[p] \in {pc[p], "failed"}]_vars

\* a run() has failed on the install lock while the other process, holding
\* it, is installing packages
C17_Witness ==
    \E p, q \in Procs :
        /\ hnd[p].name = InstallLock /\ hnd[p].st = "raised"
        /\ pc[p] = "failed"
        /\ lockFile[InstallLock] = q /\ hist[q].pkgCmds > 0

\* C18: standalone configure() issues its module-install and download
\* commands while it holds the configure lock; a module-install command is
\* for a requested module that is not installed when it is checked; the
\* modules are taken in list order, every module is dealt with before the
\* first download, and the downloads are taken in list order, a single URL
\* as a list of one.
C18_ModulesThenDownloads ==
    /\ [](\A p \in Procs :
            LET log == hist[p].cfgLog
                mods == inp[p].modules
                Pos(m) == CHOOSE k \in 1..Len(mods) : mods[k] = m
                downloads == SelectSeq(log, LAMBDA c : c[1] = "download")
            IN  /\ \A i, j \in 1..Len(log) :
                      (i < j /\ log[i][1] = "download") => log[j][1] = "download"
                /\ \A i \in 1..Len(log) :
                      log[i][1] = "module" => \E k \in 1..Len(mods) : mods[k] = log[i][2]
                /\ \A i, j \in 1..Len(log) :
                      (i < j /\ log[j][1] = "module") => Pos(log[i][2]) < Pos(log[j][2])
                /\ downloads # <<>> =>
                      \A k \in 1..Len(mods) : mods[k] \in installedModules
                /\ Len(downloads) <= Len(DownloadList(inp[p]))
                /\ \A k \in 1..Len(downloads) :
                      downloads[k][2] = DownloadList(inp[p])[k]
                /\ inp[p].download.kind = "one" => Len(DownloadList(inp[p])) = 1)
    /\ [][\A p \in Procs :
            hist'[p].cfgLog # hist[p].cfgLog =>
                LET c == hist'[p].cfgLog[Len(hist'[p].cfgLog)]
                IN  /\ lockFile[ConfigLock] = p /\ hnd[p].acquired
                    /\ hnd[p].name = ConfigLock
                    /\ get_runner_class(inp[p]) = "PuppetStandaloneRunner"
                    /\ c[1] = "module" => c[2] \notin installedModules]_vars

\* one configure() installed m1 and m2 and then extracted d1; the other
\* found its only module m2 installed and went on to d1 and d2
C18_Witness ==
    \E p, q \in Procs :
        /\ hist[p].cfgLog = << <<"module", "m1">>, <<"module", "m2">>, <<"download", "d1">> >>
        /\ hist[q].cfgLog = << <<"download", "d1">>, <<"download", "d2">> >>
        /\ hist[p].configureRet /\ hist[q].configureRet

\* C19: when the agent is not installed and the HEAD request for the
\* repository package is answered with a status other than OK, install()
\* raises before any package download or package-manager command, any
\* directory command and the custom-facts copy; the error leaves the `with`
\* body, the install lock is released, and run() fails.
C19_HeadFailureStopsInstall ==
    /\ [](\A p \in Procs :
            hist[p].headFailed =>
                /\ hist[p].checked /\ ~hist[p].foundInstalled
                /\ hist[p].pkgCmds = 0 /\ hist[p].dirCmds = 0
                /\ ~hist[p].installRet
                /\ hist[p].configureCalls = 0 /\ hist[p].execCalls = 0
                /\ pc[p] \in {"install_exit", "failed"}
                /\ pc[p] = "install_exit" => (exc[p] /\ lockFile[InstallLock] = p)
                /\ pc[p] = "failed" =>
                      (lockFile[InstallLock] # p /\ ~hnd[p].acquired
                          /\ hnd[p].st = "exited"))
    /\ [][\A p \in Procs :
            (pc[p] = "install_head" /\ pc'[p] = "install_pkg_url") =>
                ~hist'[p].headFailed]_vars

\* the HEAD request of one install() was refused, its run() has failed, and
\* the other process has the install lock after it
C19_Witness ==
    \E p, q \in Procs :
        /\ hist[p].headFailed /\ pc[p] = "failed"
        /\ lockFile[InstallLock] = q /\ q # p
        /\ hist[q].installCalls = 1 /\ hnd[q].attempts > 1

\* C20: no process holds the install lock and the configure lock together:
\* the install lock is released before the configure lock is asked for. A
\* process that holds a lock is not waiting for a lock, every process that
\* has not ended its run() can take a step, and each step of a lock wait
\* ends the wait, acquired or raised, or uses up one of the `retries`
\* attempts: the processes cannot deadlock on the locks.
C20_LocksNeverNested ==
    /\ [](\A p \in Procs :
            /\ ~(lockFile[InstallLock] = p /\ lockFile[ConfigLock] = p)
            /\ (hnd[p].name = ConfigLock /\ hnd[p].st # "none") =>
                   lockFile[InstallLock] # p
            /\ (\E l \in LockNames : lockFile[l] = p) => hnd[p].st = "entered"
            /\ hnd[p].attempts <= hnd[p].retries
            /\ pc[p] \notin {"done", "failed"} => ENABLED ProcNext(p))
    /\ [][\A p \in Procs :
            (hnd[p].st = "entering" /\ hnd'[p] # hnd[p]) =>
                \/ hnd'[p].st = "entered" /\ lockFile'[hnd[p].name] = p
                \/ hnd'[p].st = "raised" /\ hnd[p].attempts = hnd[p].retries
                \/ /\ hnd'[p].st = "entering"
                   /\ hnd'[p].attempts = hnd[p].attempts + 1]_vars

\* one process holds the configure lock, having released the install lock,
\* which the other process got after waiting for it
C20_Witness ==
    \E p, q \in Procs :
        /\ p # q
        /\ lockFile[ConfigLock] = p /\ hist[p].installRet
        /\ lockFile[InstallLock] = q /\ hnd[q].attempts > 1

\* C21 (as claimed): whenever an install() has returned normally the host
\* is fully installed: the agent is there, the directories exist with mode
\* 0700 and the custom facts script is at its destination, also when an
\* earlier install() failed part-way.
C21_InstalledAfterReturn ==
    \A p \in Procs :
        hist[p].installRet =>
            /\ puppetBin
            /\ dirs = "mode700"
            /\ customFacts

\* C22 (as claimed): an acquisition fails only after at least one attempt
\* has timed out, for every retries >= 0: __enter__ has not raised without
\* an attempt.
C22_FailsOnlyAfterAttempt ==
    \A p \in Procs :
        hnd[p].st = "raised" => hnd[p].attempts >= 1
====
